---- MODULE Spec2Model ----
(***************************************************************************)
(* BiMap (src/src/lib.rs): a bijective map made of a dense bucket store    *)
(* `data` and two Robin Hood probed index arrays `left_index` and          *)
(* `right_index` that hold bucket slot numbers.                            *)
(*                                                                         *)
(* Slot numbers and index positions are 0-based as in the source; the      *)
(* sequences that hold them are 1-based, so a[i] of the source is a[i+1].  *)
(***************************************************************************)
EXTENDS Integers, Sequences, FiniteSets, TLC

\* ------------------------------------------------------------- bounds
\* left values are 0..NumLeft-1, right values 0..NumRight-1
NumLeft == 3
NumRight == 2
\* the constructors are called with a capacity argument in 0..MaxInitCapacity
MaxInitCapacity == 2
\* reserve is called with additional in 0..MaxAdditional
MaxAdditional == 1
\* insert and try_insert are called on a store of fewer than MaxLen buckets
MaxLen == 3
\* with_capacity is called with a capacity argument in 0..MaxCapacityArg where
\* the map is then only filled
MaxCapacityArg == 20
\* the pairs (k, k), k in 0..NumPairs-1, of the maps that hold every value once
NumPairs == 4
\* reserve is also called with additional in usize::MAX - MaxBelowWrap + 1 ..
\* usize::MAX, the arguments that make len + additional pass the end of the word
MaxBelowWrap == 2

Left == 0 .. (NumLeft - 1)
Right == 0 .. (NumRight - 1)
Values == 0 .. ((IF NumLeft > NumRight THEN NumLeft ELSE NumRight) - 1)

\* ---------------------------------------------------------- constants
\* usize::MAX in the source; any number above every bucket slot number
EMPTY_SLOT == 2147483647

\* Option<T>
None == [tag |-> "None", val |-> 0]
Some(v) == [tag |-> "Some", val |-> v]

Bucket(l, r) == [left |-> l, right |-> r]

\* the hashers a map is built with: finish() of the hasher after hashing v
IdentityHash == [v \in Values |-> v]
CollidingHash == [v \in Values |-> 5]
Hashers == {IdentityHash, CollidingHash}

VARIABLES data, left_index, right_index, hasher, reverse_hasher,
          op, argL, argR, ret, outcome, path, grew, tracking, abs, twin

vars == <<data, left_index, right_index, hasher, reverse_hasher,
          op, argL, argR, ret, outcome, path, grew, tracking, abs, twin>>

\* the map as one value; fault is "none" until a panic or an endless loop
Self == [data |-> data, left_index |-> left_index, right_index |-> right_index,
         hasher |-> hasher, reverse_hasher |-> reverse_hasher, fault |-> "none"]

len(m) == Len(m.data)
current_capacity(m) == Len(m.left_index)
Fail(m, f) == [m EXCEPT !.fault = f]
Ok(m) == m.fault = "none"

\* the quotient without the added 1: the fit of C19 tells it from
\* apply_load_factor
apply_load_factor_floor(capacity) == (10 * capacity) \div 9

\* (capacity as f64 / 0.9) as usize + 1; exact in integers for every capacity
\* far below 2^53
apply_load_factor(capacity) == ((10 * capacity) \div 9) + 1

\* hasher.finish() as usize % capacity; the caller has capacity > 0
hash_to_index(h, element, capacity) == h[element] % capacity

\* 2^64 mod capacity, by squaring 2^16 twice
WordModulus(capacity) ==
    LET a == 65536 % capacity
        b == (a * a) % capacity
    IN  (b * b) % capacity

\* index.wrapping_sub(ideal).rem_euclid(capacity) on 64-bit words
wrapping_sub_rem(index, ideal, capacity) ==
    IF index >= ideal
    THEN (index - ideal) % capacity
    ELSE (WordModulus(capacity) + capacity - ((ideal - index) % capacity)) % capacity

lookup(side, bucket) == IF side = "left" THEN bucket.left ELSE bucket.right

RECURSIVE probe_walk(_, _, _, _, _, _, _, _)
probe_walk(element, hash_index, h, side, buckets, capacity, index, dist) ==
    IF ~(hash_index[index + 1] < EMPTY_SLOT)
    THEN [res |-> "Err", index |-> index]
    ELSE IF hash_index[index + 1] >= Len(buckets)
    THEN [res |-> "Panic", index |-> index]
    ELSE LET bucket == buckets[hash_index[index + 1] + 1]
         IN  IF lookup(side, bucket) = element
             THEN [res |-> "Ok", index |-> index]
             ELSE LET target_probe_dist ==
                          wrapping_sub_rem(index,
                              hash_to_index(h, lookup(side, bucket), capacity),
                              capacity)
                  IN  IF dist > target_probe_dist
                      THEN [res |-> "Err", index |-> index]
                      ELSE probe_walk(element, hash_index, h, side, buckets,
                                      capacity, (index + 1) % capacity, dist + 1)

\* Result<usize, usize>; "Panic" is the remainder by zero of hash_to_index or an
\* index out of bounds
probe_index(element, hash_index, h, side, buckets, capacity) ==
    IF capacity = 0
    THEN [res |-> "Panic", index |-> 0]
    ELSE probe_walk(element, hash_index, h, side, buckets, capacity,
                    hash_to_index(h, element, capacity), 0)

lookup_index_left(m, left) ==
    probe_index(left, m.left_index, m.hasher, "left", m.data, current_capacity(m))

lookup_index_right(m, right) ==
    probe_index(right, m.right_index, m.reverse_hasher, "right", m.data,
                current_capacity(m))

\* ------------------------------------------------- index maintenance
Full(meta_index) == \A i \in 1 .. Len(meta_index) : meta_index[i] < EMPTY_SLOT

\* the loop of insert_mapping; the caller has an EMPTY entry in meta_index
RECURSIVE insert_mapping(_, _, _)
insert_mapping(meta_index, mapping_index, current_content) ==
    IF meta_index[mapping_index + 1] < EMPTY_SLOT
    THEN insert_mapping([meta_index EXCEPT ![mapping_index + 1] = current_content],
                        (mapping_index + 1) % Len(meta_index),
                        meta_index[mapping_index + 1])
    ELSE [meta_index EXCEPT ![mapping_index + 1] = current_content]

\* without an EMPTY entry the loop of insert_mapping never ends
insert_mapping_left(m, mapping_index, bucket_index) ==
    IF ~Ok(m) THEN m
    ELSE IF mapping_index >= current_capacity(m) THEN Fail(m, "panic")
    ELSE IF Full(m.left_index) THEN Fail(m, "hang")
    ELSE [m EXCEPT !.left_index = insert_mapping(@, mapping_index, bucket_index)]

insert_mapping_right(m, mapping_index, bucket_index) ==
    IF ~Ok(m) THEN m
    ELSE IF mapping_index >= current_capacity(m) THEN Fail(m, "panic")
    ELSE IF Full(m.right_index) THEN Fail(m, "hang")
    ELSE [m EXCEPT !.right_index = insert_mapping(@, mapping_index, bucket_index)]

\* the while loop of delete_mapping_left / delete_mapping_right
RECURSIVE delete_mapping_walk(_, _, _, _, _)
delete_mapping_walk(meta_index, h, side, buckets, current_mapping_index) ==
    LET capacity == Len(meta_index)
        current_neighbor == meta_index[current_mapping_index + 1]
    IN  IF current_neighbor = EMPTY_SLOT
        THEN [fault |-> "none", index |-> meta_index]
        ELSE IF current_neighbor >= Len(buckets)
        THEN [fault |-> "panic", index |-> meta_index]
        ELSE IF hash_to_index(h, lookup(side, buckets[current_neighbor + 1]), capacity)
                    = current_mapping_index
        THEN [fault |-> "none", index |-> meta_index]
        ELSE LET previous == IF current_mapping_index = 0
                             THEN capacity - 1
                             ELSE current_mapping_index - 1
             IN  delete_mapping_walk(
                     [meta_index EXCEPT
                         ![previous + 1] = meta_index[current_mapping_index + 1],
                         ![current_mapping_index + 1] = meta_index[previous + 1]],
                     h, side, buckets, (current_mapping_index + 1) % capacity)

\* a deletion that empties the entry and moves nothing: the backward shift of
\* C28 tells it from delete_mapping_left
delete_mapping_left_unshifted(m, mapping_index) ==
    IF ~Ok(m) THEN m
    ELSE IF mapping_index >= current_capacity(m) THEN Fail(m, "panic")
    ELSE [m EXCEPT !.left_index = [@ EXCEPT ![mapping_index + 1] = EMPTY_SLOT]]

delete_mapping_left(m, mapping_index) ==
    IF ~Ok(m) THEN m
    ELSE IF mapping_index >= current_capacity(m) THEN Fail(m, "panic")
    ELSE LET w == delete_mapping_walk(
                      [m.left_index EXCEPT ![mapping_index + 1] = EMPTY_SLOT],
                      m.hasher, "left", m.data,
                      (mapping_index + 1) % current_capacity(m))
         IN  [m EXCEPT !.left_index = w.index, !.fault = w.fault]

delete_mapping_right(m, mapping_index) ==
    IF ~Ok(m) THEN m
    ELSE IF mapping_index >= current_capacity(m) THEN Fail(m, "panic")
    ELSE LET w == delete_mapping_walk(
                      [m.right_index EXCEPT ![mapping_index + 1] = EMPTY_SLOT],
                      m.reverse_hasher, "right", m.data,
                      (mapping_index + 1) % current_capacity(m))
         IN  [m EXCEPT !.right_index = w.index, !.fault = w.fault]

\* ------------------------------------------------------- bucket store
\* a push that enters the bucket in the left index only: the density of C15
\* tells it from push_new_bucket
push_left_only(m, bucket, left_index_, right_index_) ==
    IF ~Ok(m) THEN m
    ELSE LET pushed == [m EXCEPT !.data = Append(@, bucket)]
         IN  insert_mapping_left(pushed, left_index_, len(pushed) - 1)

push_new_bucket(m, bucket, left_index_, right_index_) ==
    IF ~Ok(m) THEN m
    ELSE LET pushed == [m EXCEPT !.data = Append(@, bucket)]
         IN  insert_mapping_right(
                 insert_mapping_left(pushed, left_index_, len(pushed) - 1),
                 right_index_, len(pushed) - 1)

\* Result::unwrap of a lookup, then the deletion of that mapping
delete_found_left(m, found) ==
    IF found.res = "Ok" THEN delete_mapping_left(m, found.index) ELSE Fail(m, "panic")

delete_found_right(m, found) ==
    IF found.res = "Ok" THEN delete_mapping_right(m, found.index) ELSE Fail(m, "panic")

\* data.pop()
Pop(m) == [m EXCEPT !.data = SubSeq(@, 1, Len(@) - 1)]

\* the tail of delete_bucket, after both mappings of the bucket are deleted
swap_remove(m, bucket_index) ==
    IF ~Ok(m) THEN m
    ELSE IF bucket_index = len(m) - 1 THEN Pop(m)
    ELSE LET bucket_to_move == m.data[len(m)]
             left_index_ == lookup_index_left(m, bucket_to_move.left)
             right_index_ == lookup_index_right(m, bucket_to_move.right)
         IN  IF left_index_.res # "Ok" \/ right_index_.res # "Ok"
             THEN Fail(m, "panic")
             ELSE Pop([m EXCEPT
                     !.data = [@ EXCEPT ![bucket_index + 1] = bucket_to_move,
                                        ![len(m)] = m.data[bucket_index + 1]],
                     !.left_index = [@ EXCEPT ![left_index_.index + 1] = bucket_index],
                     !.right_index = [@ EXCEPT ![right_index_.index + 1] = bucket_index]])

\* left_meta_index / right_meta_index are Option<usize>; the returned bucket is
\* the one at bucket_index on entry
delete_bucket(m, bucket_index, left_meta_index, right_meta_index) ==
    IF ~Ok(m) THEN m
    ELSE IF ~(bucket_index < len(m)) THEN Fail(m, "panic")
    ELSE LET dl == IF left_meta_index.tag = "Some"
                   THEN delete_mapping_left(m, left_meta_index.val)
                   ELSE delete_found_left(m,
                            lookup_index_left(m, m.data[bucket_index + 1].left))
             dr == IF ~Ok(dl) THEN dl
                   ELSE IF right_meta_index.tag = "Some"
                   THEN delete_mapping_right(dl, right_meta_index.val)
                   ELSE delete_found_right(dl,
                            lookup_index_right(dl, dl.data[bucket_index + 1].right))
         IN  swap_remove(dr, bucket_index)

replace_bucket(m, bucket_index, bucket) ==
    IF ~Ok(m) THEN m
    ELSE IF ~(bucket_index < len(m)) THEN Fail(m, "panic")
    ELSE [m EXCEPT !.data = [@ EXCEPT ![bucket_index + 1] = bucket]]

\* ------------------------------------------------------ resize manager
\* a fit test against the whole capacity, without the load factor: the load
\* bound of C16 tells it from can_fit
can_fit_whole(m, num) == len(m) + num <= current_capacity(m)

\* A usize within reach of the end of the 64-bit word is written as the negative
\* integer it is congruent to modulo 2^64: -d stands for 2^64 - d, -1 for
\* usize::MAX. The sum of a small a >= 0 and such a b is then a + b in both
\* cases: a + b >= 0 is the sum wrapped past 2^64, a + b < 0 a sum near 2^64.
add_overflows(a, b) == b < 0 /\ a + b >= 0

\* ((len + num) as f64) < (capacity as f64 * 0.9); exact in integers far below
\* 2^53, and false for a sum near 2^64. A sum that wrapped is the small value
\* the build without overflow checks computes; the caller raises the panic of
\* the build with overflow checks.
can_fit(m, num) ==
    /\ len(m) + num >= 0
    /\ 10 * (len(m) + num) < 9 * current_capacity(m)

EmptyIndex(capacity) == [i \in 1 .. capacity |-> EMPTY_SLOT]

\* the for loop of resize; unwrap_err panics on a value found in the prefix
RECURSIVE resize_loop(_, _, _, _)
resize_loop(m, new_left_index, new_right_index, bucket_index) ==
    IF bucket_index >= len(m)
    THEN [m EXCEPT !.left_index = new_left_index, !.right_index = new_right_index]
    ELSE LET bucket == m.data[bucket_index + 1]
             prefix == SubSeq(m.data, 1, bucket_index)
             left_element_index ==
                 probe_index(bucket.left, new_left_index, m.hasher, "left", prefix,
                             Len(new_left_index))
             right_element_index ==
                 probe_index(bucket.right, new_right_index, m.reverse_hasher, "right",
                             prefix, Len(new_right_index))
         IN  IF left_element_index.res # "Err" \/ right_element_index.res # "Err"
             THEN Fail(m, "panic")
             ELSE IF Full(new_left_index) \/ Full(new_right_index)
             THEN Fail(m, "hang")
             ELSE resize_loop(m,
                      insert_mapping(new_left_index, left_element_index.index,
                                     bucket_index),
                      insert_mapping(new_right_index, right_element_index.index,
                                     bucket_index),
                      bucket_index + 1)

\* a resize that rebuilds the indices of the first bucket only and drops the
\* other buckets: the frame of C22 tells it from resize
resize_truncating(m, new_capacity) ==
    IF ~Ok(m) THEN m
    ELSE IF ~(new_capacity >= len(m)) THEN Fail(m, "panic")
    ELSE resize_loop([m EXCEPT !.data = SubSeq(@, 1, IF Len(@) > 0 THEN 1 ELSE 0)],
                     EmptyIndex(new_capacity), EmptyIndex(new_capacity), 0)

resize(m, new_capacity) ==
    IF ~Ok(m) THEN m
    ELSE IF ~(new_capacity >= len(m)) THEN Fail(m, "panic")
    ELSE resize_loop(m, EmptyIndex(new_capacity), EmptyIndex(new_capacity), 0)

\* (capacity as f64 * GROWTH_FACTOR).ceil() as usize, GROWTH_FACTOR = 2.0
grow(m) == resize(m, 2 * current_capacity(m))

\* ------------------------------------------------------------ queries
\* "Panic" when the lookup panics
Panicked == [tag |-> "Panic", val |-> 0]

get_right(m, left) ==
    LET found == lookup_index_left(m, left)
    IN  IF found.res = "Panic" THEN Panicked
        ELSE IF found.res = "Ok"
        THEN Some(m.data[m.left_index[found.index + 1] + 1].right)
        ELSE None

get_left(m, right) ==
    LET found == lookup_index_right(m, right)
    IN  IF found.res = "Panic" THEN Panicked
        ELSE IF found.res = "Ok"
        THEN Some(m.data[m.right_index[found.index + 1] + 1].left)
        ELSE None

\* with capacity 0 the lookup panics, as in get_right
contains_left(m, left) == lookup_index_left(m, left).res = "Ok"
contains_right(m, right) == lookup_index_right(m, right).res = "Ok"

\* -------------------------------------------------- public operations
\* the result of a call: the map after it, the value returned, "Returned" / "Ok" /
\* "Err", the branch taken and whether grow ran
Result(m, r, o, p, g) == [m |-> m, ret |-> r, outcome |-> o, path |-> p, grew |-> g]

\* lines 480-488 of insert: the right mapping of the left bucket is replaced
overwrite_right(m, left_bucket, left, right, old_left, p, g) ==
    IF ~Ok(m)
    THEN Result(m, <<None, None>>, "Returned", p, g)
    ELSE IF ~(left_bucket < len(m))
    THEN Result(Fail(m, "panic"), <<None, None>>, "Returned", p, g)
    ELSE LET stale == m.data[left_bucket + 1].right
             deleted == delete_found_right(m, lookup_index_right(m, stale))
             target == IF Ok(deleted)
                       THEN lookup_index_right(deleted, right)
                       ELSE [res |-> "Panic", index |-> 0]
             inserted == IF target.res = "Err"
                         THEN insert_mapping_right(deleted, target.index, left_bucket)
                         ELSE Fail(deleted, "panic")
         IN  Result(replace_bucket(inserted, left_bucket, Bucket(left, right)),
                    <<Some(stale), old_left>>, "Returned", p, g)

\* lines 489-499 of insert: the left mapping of the right bucket is replaced; the
\* new mapping goes to the insertion point found before the old one was deleted
overwrite_left(m, right_bucket, left, right, left_index_, g) ==
    LET stale == m.data[right_bucket + 1].left
        deleted == delete_found_left(m, lookup_index_left(m, stale))
        inserted == insert_mapping_left(deleted, left_index_.index, right_bucket)
    IN  Result(replace_bucket(inserted, right_bucket, Bucket(left, right)),
               <<None, Some(stale)>>, "Returned", "only_right", g)

insert(m0, left, right) ==
    LET g == ~can_fit(m0, 1)
        m == IF g THEN grow(m0) ELSE m0
        left_index_ == lookup_index_left(m, left)
        right_index_ == lookup_index_right(m, right)
    IN  IF ~Ok(m) \/ left_index_.res = "Panic" \/ right_index_.res = "Panic"
        THEN Result(Fail(m, "panic"), <<None, None>>, "Returned", "none", g)
        ELSE IF left_index_.res = "Ok"
        THEN LET left_bucket == m.left_index[left_index_.index + 1]
             IN  IF right_index_.res = "Ok"
                 THEN LET right_bucket == m.right_index[right_index_.index + 1]
                          bucket == m.data[right_bucket + 1]
                          deleted == delete_bucket(m, right_bucket, None,
                                                   Some(right_index_.index))
                          moved == left_bucket = len(deleted)
                      IN  IF left_bucket # right_bucket
                          THEN overwrite_right(deleted,
                                   IF moved THEN right_bucket ELSE left_bucket,
                                   left, right, Some(bucket.left),
                                   IF moved THEN "both_moved" ELSE "both", g)
                          ELSE Result(m, <<Some(right), Some(left)>>, "Returned",
                                      "same_bucket", g)
                 ELSE overwrite_right(m, left_bucket, left, right, None,
                                      "only_left", g)
        ELSE IF right_index_.res = "Ok"
        THEN overwrite_left(m, m.right_index[right_index_.index + 1], left, right,
                            left_index_, g)
        ELSE Result(push_new_bucket(m, Bucket(left, right), left_index_.index,
                                    right_index_.index),
                    <<None, None>>, "Returned", "neither", g)

\* the lookups come first; grow, when it runs, runs between them and the push
try_insert(m, left, right) ==
    LET left_index_ == lookup_index_left(m, left)
        right_index_ == lookup_index_right(m, right)
        g == ~can_fit(m, 1)
    IN  IF left_index_.res = "Panic" \/ right_index_.res = "Panic"
        THEN Result(Fail(m, "panic"), <<None, None>>, "Err", "none", FALSE)
        ELSE IF left_index_.res = "Err" /\ right_index_.res = "Err"
        THEN Result(push_new_bucket(IF g THEN grow(m) ELSE m, Bucket(left, right),
                                    left_index_.index, right_index_.index),
                    <<None, None>>, "Ok", "neither", g)
        ELSE Result(m, <<get_right(m, left), get_left(m, right)>>, "Err",
                    "occupied", FALSE)

remove_left(m, left) ==
    LET left_index_ == lookup_index_left(m, left)
    IN  IF left_index_.res = "Panic"
        THEN Result(Fail(m, "panic"), <<None, None>>, "Returned", "none", FALSE)
        ELSE IF left_index_.res = "Ok"
        THEN LET bucket == m.left_index[left_index_.index + 1]
             IN  Result(delete_bucket(m, bucket, Some(left_index_.index), None),
                        <<Some(m.data[bucket + 1].right), None>>, "Returned",
                        IF bucket = len(m) - 1 THEN "last" ELSE "relocate", FALSE)
        ELSE Result(m, <<None, None>>, "Returned", "absent", FALSE)

remove_right(m, right) ==
    LET right_index_ == lookup_index_right(m, right)
    IN  IF right_index_.res = "Panic"
        THEN Result(Fail(m, "panic"), <<None, None>>, "Returned", "none", FALSE)
        ELSE IF right_index_.res = "Ok"
        THEN LET bucket == m.right_index[right_index_.index + 1]
             IN  Result(delete_bucket(m, bucket, None, Some(right_index_.index)),
                        <<None, Some(m.data[bucket + 1].left)>>, "Returned",
                        IF bucket = len(m) - 1 THEN "last" ELSE "relocate", FALSE)
        ELSE Result(m, <<None, None>>, "Returned", "absent", FALSE)

\* overflow_checks: the build panics on an integer overflow (debug) or wraps
\* (release). usize::MAX - capacity < additional is -1 - capacity < additional
\* for an additional near 2^64 and false for a small one. apply_load_factor of
\* a sum near 2^64: the cast of the quotient saturates at usize::MAX and the
\* `+ 1` overflows, to 0 when it wraps.
reserve(m, additional, overflow_checks) ==
    IF overflow_checks /\ add_overflows(len(m), additional)
    THEN Result(Fail(m, "panic"), <<None, None>>, "Returned", "add_overflow", FALSE)
    ELSE IF can_fit(m, additional)
    THEN Result(m, <<None, None>>, "Returned", "fits", FALSE)
    ELSE IF additional < 0 /\ (-1) - current_capacity(m) < additional
    THEN Result(Fail(m, "panic"), <<None, None>>, "Returned", "capacity_overflow",
                FALSE)
    ELSE IF len(m) + additional < 0
    THEN IF overflow_checks
         THEN Result(Fail(m, "panic"), <<None, None>>, "Returned", "add_overflow",
                     FALSE)
         ELSE Result(resize(m, 0), <<None, None>>, "Returned", "resize", FALSE)
    ELSE Result(resize(m, apply_load_factor(len(m) + additional)),
                <<None, None>>, "Returned", "resize", FALSE)

shrink_to_fit(m) ==
    Result(resize(m, apply_load_factor(len(m))), <<None, None>>, "Returned",
           "resize", FALSE)

clear(m) ==
    Result([m EXCEPT !.data = <<>>,
                     !.left_index = EmptyIndex(Len(@)),
                     !.right_index = EmptyIndex(Len(@))],
           <<None, None>>, "Returned", "clear", FALSE)

\* ------------------------------------- reference partial bijection
\* a set of pairs <<left, right>>, run side by side with the map
RefGetRight(a, l) ==
    IF \E q \in a : q[1] = l THEN Some((CHOOSE q \in a : q[1] = l)[2]) ELSE None

RefGetLeft(a, r) ==
    IF \E q \in a : q[2] = r THEN Some((CHOOSE q \in a : q[2] = r)[1]) ELSE None

RefFree(a, l, r) == RefGetRight(a, l) = None /\ RefGetLeft(a, r) = None

RefNext(a, o, l, r) ==
    CASE o = "insert" -> {q \in a : q[1] # l /\ q[2] # r} \cup {<<l, r>>}
      [] o = "try_insert" -> IF RefFree(a, l, r) THEN a \cup {<<l, r>>} ELSE a
      [] o = "remove_left" -> {q \in a : q[1] # l}
      [] o = "remove_right" -> {q \in a : q[2] # r}
      [] o = "clear" -> {}
      [] OTHER -> a

RefRet(a, o, l, r) ==
    CASE o = "insert" -> <<RefGetRight(a, l), RefGetLeft(a, r)>>
      [] o = "try_insert" -> IF RefFree(a, l, r) THEN <<None, None>>
                             ELSE <<RefGetRight(a, l), RefGetLeft(a, r)>>
      [] o = "remove_left" -> <<RefGetRight(a, l), None>>
      [] o = "remove_right" -> <<None, RefGetLeft(a, r)>>
      [] OTHER -> <<None, None>>

RefOutcome(a, o, l, r) ==
    IF o = "try_insert" THEN (IF RefFree(a, l, r) THEN "Ok" ELSE "Err") ELSE "Returned"

\* the map answers every query as the reference does
RefAgrees ==
    /\ Len(data) = Cardinality(abs)
    /\ \A l \in Left : get_right(Self, l) = RefGetRight(abs, l)
    /\ \A r \in Right : get_left(Self, r) = RefGetLeft(abs, r)

\* ------------------------------------------------------ state machine
\* with_hashers(n, ..) has capacity n, with_capacity(n) has apply_load_factor(n)
Construct ==
    /\ data = <<>>
    /\ \E n \in 0 .. MaxInitCapacity :
          \E capacity \in {n, apply_load_factor(n)} :
             /\ left_index = EmptyIndex(capacity)
             /\ right_index = EmptyIndex(capacity)
    /\ hasher \in Hashers
    /\ reverse_hasher \in Hashers
    /\ op = "new"
    /\ argL = 0
    /\ argR = 0
    /\ ret = <<None, None>>
    /\ outcome = "Returned"
    /\ path = "none"
    /\ grew = FALSE
    /\ abs = {}

\* twin is a second map given the same calls, with what its last call returned;
\* NoTwin where there is none
NoTwin ==
    Result([data |-> <<>>, left_index |-> <<>>, right_index |-> <<>>,
            hasher |-> <<>>, reverse_hasher |-> <<>>, fault |-> "none"],
           <<None, None>>, "Returned", "none", FALSE)

Init == Construct /\ tracking = FALSE /\ twin = NoTwin

\* the reference is run beside the map, up to the first call they disagree on
InitRef == Construct /\ tracking = TRUE /\ twin = NoTwin

\* a panic or an endless loop ends the run; the map is not looked at afterwards
Alive == outcome \notin {"Panic", "Hang"} /\ (tracking => RefAgrees)

Record(res, o, l, r) ==
    /\ data' = IF Ok(res.m) THEN res.m.data ELSE data
    /\ left_index' = IF Ok(res.m) THEN res.m.left_index ELSE left_index
    /\ right_index' = IF Ok(res.m) THEN res.m.right_index ELSE right_index
    /\ UNCHANGED <<hasher, reverse_hasher>>
    /\ op' = o
    /\ argL' = l
    /\ argR' = r
    /\ ret' = IF Ok(res.m) THEN res.ret ELSE <<None, None>>
    /\ outcome' = IF Ok(res.m) THEN res.outcome
                  ELSE IF res.m.fault = "panic" THEN "Panic" ELSE "Hang"
    /\ path' = res.path
    /\ grew' = res.grew
    /\ tracking' = tracking
    /\ abs' = IF tracking THEN RefNext(abs, o, l, r) ELSE abs

Commit(res, o, l, r) == Record(res, o, l, r) /\ twin' = twin

Insert ==
    /\ Alive
    /\ Len(data) < MaxLen
    /\ \E l \in Left, r \in Right : Commit(insert(Self, l, r), "insert", l, r)

TryInsert ==
    /\ Alive
    /\ Len(data) < MaxLen
    /\ \E l \in Left, r \in Right : Commit(try_insert(Self, l, r), "try_insert", l, r)

RemoveLeft ==
    /\ Alive
    /\ \E l \in Left : Commit(remove_left(Self, l), "remove_left", l, 0)

RemoveRight ==
    /\ Alive
    /\ \E r \in Right : Commit(remove_right(Self, r), "remove_right", 0, r)

Reserve ==
    /\ Alive
    /\ \E additional \in 0 .. MaxAdditional, overflow_checks \in BOOLEAN :
          Commit(reserve(Self, additional, overflow_checks), "reserve", additional, 0)

\* reserve with an argument near usize::MAX
ReserveNearMax ==
    /\ Alive
    /\ \E below \in 1 .. MaxBelowWrap, overflow_checks \in BOOLEAN :
          Commit(reserve(Self, -below, overflow_checks), "reserve", -below, 0)

ShrinkToFit ==
    /\ Alive
    /\ Commit(shrink_to_fit(Self), "shrink_to_fit", 0, 0)

Clear ==
    /\ Alive
    /\ Commit(clear(Self), "clear", 0, 0)

Next ==
    \/ Insert
    \/ TryInsert
    \/ RemoveLeft
    \/ RemoveRight
    \/ Reserve
    \/ ReserveNearMax
    \/ ShrinkToFit
    \/ Clear

Spec == Init /\ [][Next]_vars

SpecRef == InitRef /\ [][Next]_vars

\* ------------------------------------------------------------ claims
\* what the bucket store holds
BoundPair(l, r) == \E i \in 1 .. Len(data) : data[i] = Bucket(l, r)
LeftBound(l) == \E i \in 1 .. Len(data) : data[i].left = l
RightBound(r) == \E i \in 1 .. Len(data) : data[i].right = r

\* the call that led to the primed state
Called(o, l, r) == op' = o /\ argL' = l /\ argR' = r

\* C1: in every reachable state and for every left value l and right value r,
\* get_right(l) is Some(r) exactly when get_left(r) is Some(l)
C1_Bijection ==
    \A l \in Left, r \in Right :
        (get_right(Self, l) = Some(r)) <=> (get_left(Self, r) = Some(l))

\* C2: after every public operation no two buckets hold equal left values and no
\* two buckets hold equal right values
C2_NoSharedValue ==
    \A i, j \in 1 .. Len(data) :
        i # j => data[i].left # data[j].left /\ data[i].right # data[j].right

\* C3: run beside the reference partial bijection, every call returns what the
\* reference returns, and afterwards get_right, get_left and len answer as the
\* reference does
C3_RefinesReference ==
    [][ tracking
        => /\ outcome' = RefOutcome(abs, op', argL', argR')
           /\ ret' = RefRet(abs, op', argL', argR')
           /\ RefAgrees' ]_vars

\* C4: insert(left, right) with right bound to old_left and left absent returns
\* (None, Some(old_left)); afterwards right and left are bound to each other,
\* old_left is unbound and len() is unchanged
C4_InsertOnlyRight ==
    [][ \A l \in Left, r \in Right, old_left \in Left :
          (Called("insert", l, r) /\ BoundPair(old_left, r) /\ ~LeftBound(l))
          => /\ outcome' = "Returned"
             /\ ret' = <<None, Some(old_left)>>
             /\ get_left(Self', r) = Some(l)
             /\ get_right(Self', l) = Some(r)
             /\ get_right(Self', old_left) = None
             /\ Len(data') = Len(data) ]_vars

\* C5: try_insert(left, right) with neither value bound returns Ok, adds one to
\* len(), and afterwards left and right are bound to each other, also when the
\* call grows the map
C5_TryInsertFree ==
    [][ \A l \in Left, r \in Right :
          (Called("try_insert", l, r) /\ ~LeftBound(l) /\ ~RightBound(r))
          => /\ outcome' = "Ok"
             /\ Len(data') = Len(data) + 1
             /\ get_right(Self', l) = Some(r)
             /\ get_left(Self', r) = Some(l) ]_vars

\* C6: insert(left, right) with left bound to old_right and right bound to
\* old_left in another bucket returns (Some(old_right), Some(old_left));
\* afterwards left and right are bound to each other, old_right and old_left are
\* unbound and len() is one less
C6_InsertCrossConflict ==
    [][ \A l \in Left, r \in Right, old_left \in Left, old_right \in Right :
          (/\ Called("insert", l, r)
           /\ BoundPair(l, old_right) /\ BoundPair(old_left, r)
           /\ old_left # l /\ old_right # r)
          => /\ outcome' = "Returned"
             /\ ret' = <<Some(old_right), Some(old_left)>>
             /\ get_right(Self', l) = Some(r)
             /\ get_left(Self', r) = Some(l)
             /\ get_left(Self', old_right) = None
             /\ get_right(Self', old_left) = None
             /\ Len(data') = Len(data) - 1 ]_vars

\* C7: insert(left, right) with left bound to old_right and right absent returns
\* (Some(old_right), None); afterwards left and right are bound to each other,
\* old_right is unbound and len() is unchanged
C7_InsertOnlyLeft ==
    [][ \A l \in Left, r \in Right, old_right \in Right :
          (Called("insert", l, r) /\ BoundPair(l, old_right) /\ ~RightBound(r))
          => /\ outcome' = "Returned"
             /\ ret' = <<Some(old_right), None>>
             /\ get_right(Self', l) = Some(r)
             /\ get_left(Self', r) = Some(l)
             /\ get_left(Self', old_right) = None
             /\ Len(data') = Len(data) ]_vars

\* C8: insert(left, right) with neither value bound returns (None, None) and
\* appends the bucket (left, right) at slot len() - 1, so len() is one more;
\* afterwards left and right are bound to each other, also when the call grows
\* the map
C8_InsertFree ==
    [][ \A l \in Left, r \in Right :
          (Called("insert", l, r) /\ ~LeftBound(l) /\ ~RightBound(r))
          => /\ outcome' = "Returned"
             /\ ret' = <<None, None>>
             /\ data' = Append(data, Bucket(l, r))
             /\ get_right(Self', l) = Some(r)
             /\ get_left(Self', r) = Some(l) ]_vars

\* C9: insert(left, right) of a pair bound to each other returns
\* (Some(right), Some(left)) and leaves len() and the answer of every get_right
\* and get_left unchanged
C9_ReinsertIdempotent ==
    [][ \A l \in Left, r \in Right :
          (Called("insert", l, r) /\ BoundPair(l, r))
          => /\ outcome' = "Returned"
             /\ ret' = <<Some(r), Some(l)>>
             /\ Len(data') = Len(data)
             /\ \A x \in Left : get_right(Self', x) = get_right(Self, x)
             /\ \A y \in Right : get_left(Self', y) = get_left(Self, y) ]_vars

\* C10: insert(left, right) of a pair bound to each other leaves the bucket
\* store, both index arrays and the capacity as they were
C10_ReinsertNoMutation ==
    [][ \A l \in Left, r \in Right :
          (Called("insert", l, r) /\ BoundPair(l, r))
          => /\ outcome' = "Returned"
             /\ data' = data
             /\ left_index' = left_index
             /\ right_index' = right_index ]_vars

\* --------------------------------------------------------------------
\* Where C6 to C9 fail, the state before the call is already damaged by an
\* earlier call (or has capacity 0). Consistent says it is not: the capacity is
\* positive, no value is held twice and every bucket is found through both indices.
Consistent ==
    /\ Len(left_index) >= 1
    /\ C2_NoSharedValue
    /\ \A i \in 1 .. Len(data) :
          /\ get_right(Self, data[i].left) = Some(data[i].right)
          /\ get_left(Self, data[i].right) = Some(data[i].left)

\* C6 for calls made in a consistent state
C6_FromConsistent ==
    [][ Consistent
        => \A l \in Left, r \in Right, old_left \in Left, old_right \in Right :
             (/\ Called("insert", l, r)
              /\ BoundPair(l, old_right) /\ BoundPair(old_left, r)
              /\ old_left # l /\ old_right # r)
             => /\ outcome' = "Returned"
                /\ ret' = <<Some(old_right), Some(old_left)>>
                /\ get_right(Self', l) = Some(r)
                /\ get_left(Self', r) = Some(l)
                /\ get_left(Self', old_right) = None
                /\ get_right(Self', old_left) = None
                /\ Len(data') = Len(data) - 1 ]_vars

\* C7 for calls made in a consistent state
C7_FromConsistent ==
    [][ Consistent
        => \A l \in Left, r \in Right, old_right \in Right :
             (Called("insert", l, r) /\ BoundPair(l, old_right) /\ ~RightBound(r))
             => /\ outcome' = "Returned"
                /\ ret' = <<Some(old_right), None>>
                /\ get_right(Self', l) = Some(r)
                /\ get_left(Self', r) = Some(l)
                /\ get_left(Self', old_right) = None
                /\ Len(data') = Len(data) ]_vars

\* C8 for calls made in a consistent state
C8_FromConsistent ==
    [][ Consistent
        => \A l \in Left, r \in Right :
             (Called("insert", l, r) /\ ~LeftBound(l) /\ ~RightBound(r))
             => /\ outcome' = "Returned"
                /\ ret' = <<None, None>>
                /\ data' = Append(data, Bucket(l, r))
                /\ get_right(Self', l) = Some(r)
                /\ get_left(Self', r) = Some(l) ]_vars

\* C9 for calls made in a consistent state
C9_FromConsistent ==
    [][ Consistent
        => \A l \in Left, r \in Right :
             (Called("insert", l, r) /\ BoundPair(l, r))
             => /\ outcome' = "Returned"
                /\ ret' = <<Some(r), Some(l)>>
                /\ Len(data') = Len(data)
                /\ \A x \in Left : get_right(Self', x) = get_right(Self, x)
                /\ \A y \in Right : get_left(Self', y) = get_left(Self, y) ]_vars


\* C11: try_insert(l, r) with l or r bound returns Err((x, y)), x the right
\* partner of l if l is bound and None otherwise, y the left partner of r if
\* r is bound and None otherwise; store, both index arrays and capacity stay
C11_TryInsertOccupied ==
    [][ \A l \in Left, r \in Right :
          (Called("try_insert", l, r) /\ (LeftBound(l) \/ RightBound(r)))
          => /\ outcome' = "Err"
             /\ IF LeftBound(l)
                THEN \E i \in 1 .. Len(data) :
                        data[i].left = l /\ ret'[1] = Some(data[i].right)
                ELSE ret'[1] = None
             /\ IF RightBound(r)
                THEN \E i \in 1 .. Len(data) :
                        data[i].right = r /\ ret'[2] = Some(data[i].left)
                ELSE ret'[2] = None
             /\ data' = data
             /\ left_index' = left_index
             /\ right_index' = right_index ]_vars

\* C11 from a consistent map
C11_FromConsistent ==
    [][ \A l \in Left, r \in Right :
          (Consistent /\ Called("try_insert", l, r) /\ (LeftBound(l) \/ RightBound(r)))
          => /\ outcome' = "Err"
             /\ ret' = <<get_right(Self, l), get_left(Self, r)>>
             /\ data' = data
             /\ left_index' = left_index
             /\ right_index' = right_index ]_vars


\* the pair (l, r) is stored and found through both indices
Retrievable(m, l, r) ==
    /\ \E i \in 1 .. Len(m.data) : m.data[i] = Bucket(l, r)
    /\ get_right(m, l) = Some(r)
    /\ get_left(m, r) = Some(l)

\* what C12 says of the state after removing the pair (l, r)
Removed(l, r) ==
    /\ outcome' = "Returned"
    /\ get_right(Self', l) = None
    /\ get_left(Self', r) = None
    /\ Len(data') = Len(data) - 1
    /\ \A l2 \in Left, r2 \in Right :
          (<<l2, r2>> # <<l, r>> /\ Retrievable(Self, l2, r2))
          => Retrievable(Self', l2, r2)

\* C12: remove_left(l) with l bound to r returns Some(r), remove_right(r) with
\* r bound to l returns Some(l); afterwards neither l nor r is found, len()
\* is one less and every other binding is still retrievable in both directions
C12_RemoveBound ==
    [][ \A l \in Left, r \in Right :
          /\ (Called("remove_left", l, 0) /\ BoundPair(l, r))
             => (ret' = <<Some(r), None>> /\ Removed(l, r))
          /\ (Called("remove_right", 0, r) /\ BoundPair(l, r))
             => (ret' = <<None, Some(l)>> /\ Removed(l, r)) ]_vars

\* C12 from a consistent map
C12_FromConsistent ==
    [][ \A l \in Left, r \in Right :
          /\ (Consistent /\ Called("remove_left", l, 0) /\ BoundPair(l, r))
             => (ret' = <<Some(r), None>> /\ Removed(l, r))
          /\ (Consistent /\ Called("remove_right", 0, r) /\ BoundPair(l, r))
             => (ret' = <<None, Some(l)>> /\ Removed(l, r)) ]_vars


\* the four queries report absence for every value the store does not hold
AbsentQueried ==
    /\ \A l \in Left :
          ~LeftBound(l)
          => (get_right(Self, l) = None /\ lookup_index_left(Self, l).res = "Err")
    /\ \A r \in Right :
          ~RightBound(r)
          => (get_left(Self, r) = None /\ lookup_index_right(Self, r).res = "Err")

\* a removal that found nothing: None, and the map as it was
AbsentRemoved ==
    /\ outcome' = "Returned"
    /\ ret' = <<None, None>>
    /\ data' = data
    /\ left_index' = left_index
    /\ right_index' = right_index

\* C13: remove_left, remove_right, get_right, get_left, contains_left and
\* contains_right, given a value that is not bound, report absence without
\* failing, and the two removals leave store, index arrays and capacity alone
C13_AbsentReported ==
    /\ [](outcome \notin {"Panic", "Hang"} => AbsentQueried)
    /\ [][ /\ \A l \in Left :
                (Called("remove_left", l, 0) /\ ~LeftBound(l)) => AbsentRemoved
           /\ \A r \in Right :
                (Called("remove_right", 0, r) /\ ~RightBound(r)) => AbsentRemoved ]_vars

\* C13 for maps of capacity at least 1 whose stored pairs are all retrievable
C13_FromConsistent ==
    /\ []((outcome \notin {"Panic", "Hang"} /\ Consistent) => AbsentQueried)
    /\ [][ /\ \A l \in Left :
                (Consistent /\ Called("remove_left", l, 0) /\ ~LeftBound(l))
                => AbsentRemoved
           /\ \A r \in Right :
                (Consistent /\ Called("remove_right", 0, r) /\ ~RightBound(r))
                => AbsentRemoved ]_vars


\* the positions of index array a that hold slot number i
Holding(a, i) == {p \in 1 .. Len(a) : a[p] = i}

\* C14: for every occupied bucket slot i, exactly one position of the left
\* index holds i and exactly one position of the right index holds i
C14_IndexCoverage ==
    \A i \in 0 .. Len(data) - 1 :
       /\ Cardinality(Holding(left_index, i)) = 1
       /\ Cardinality(Holding(right_index, i)) = 1


\* C14 in the states in which every stored pair is retrievable
C14_WhenConsistent == Consistent => C14_IndexCoverage


\* the number of entries of index array a that are not EMPTY_SLOT
Occupied(a) == Cardinality({p \in 1 .. Len(a) : a[p] # EMPTY_SLOT})

\* C15: len() is the number of buckets, the number of non-EMPTY entries of the
\* left index and the number of non-EMPTY entries of the right index
C15_Density ==
    /\ len(Self) = Len(data)
    /\ len(Self) = Occupied(left_index)
    /\ len(Self) = Occupied(right_index)

\* a removal that relocated the last bucket has left two buckets behind
C15_Witness ==
    /\ op \in {"remove_left", "remove_right"}
    /\ outcome = "Returned"
    /\ path = "relocate"
    /\ Len(data) = 2
    /\ Occupied(left_index) = 2
    /\ Occupied(right_index) = 2


\* the last call was an insert that returned or a try_insert that returned Ok
Inserted ==
    \/ op = "insert" /\ outcome = "Returned"
    \/ op = "try_insert" /\ outcome = "Ok"

\* C16: right after an insert or a successful try_insert, len() is below
\* capacity * 0.9, whatever the initial capacity and the calls made before
C16_LoadBound ==
    Inserted => 10 * len(Self) < 9 * current_capacity(Self)

\* an insert into a map of capacity 2 that holds one pair has grown it to 4
C16_Witness ==
    /\ Inserted
    /\ grew
    /\ len(Self) = 2
    /\ current_capacity(Self) = 4


\* the number of steps from position s forward to position p, wrapping
Distance(s, p, capacity) == (p - s + capacity) % capacity

\* the ideal slot of the resident at position p of index array a
IdealOf(a, h, side, p) ==
    hash_to_index(h, lookup(side, data[a[p + 1] + 1]), Len(a))

\* position p of a holds the slot number of a bucket
Resident(a, p) == a[p + 1] # EMPTY_SLOT /\ a[p + 1] < Len(data)

\* Robin Hood ordering of index array a
RobinHood(a, h, side) ==
    \A p \in 0 .. Len(a) - 1 :
       a[p + 1] # EMPTY_SLOT
       => /\ Resident(a, p)
          /\ LET s == IdealOf(a, h, side, p)
             IN  \A d \in 0 .. Distance(s, p, Len(a)) - 1 :
                    LET q == (s + d) % Len(a)
                    IN  /\ Resident(a, q)
                        /\ Distance(IdealOf(a, h, side, q), q, Len(a)) >= d

\* residents that all share the ideal slot s fill the positions from s on
Clustered(a, h, side) ==
    \A s \in 0 .. Len(a) - 1 :
       (\A p \in 0 .. Len(a) - 1 :
           a[p + 1] # EMPTY_SLOT => (Resident(a, p) /\ IdealOf(a, h, side, p) = s))
       => {p \in 0 .. Len(a) - 1 : a[p + 1] # EMPTY_SLOT}
          = {(s + d) % Len(a) : d \in 0 .. Occupied(a) - 1}

\* C17: both index arrays are in Robin Hood order after every public
\* operation, so a lookup never misses a present value, and k values sharing
\* one ideal slot occupy the k consecutive positions from that slot
C17_RobinHood ==
    /\ RobinHood(left_index, hasher, "left")
    /\ RobinHood(right_index, reverse_hasher, "right")
    /\ \A i \in 1 .. Len(data) : Retrievable(Self, data[i].left, data[i].right)
    /\ Clustered(left_index, hasher, "left")
    /\ Clustered(right_index, reverse_hasher, "right")


\* index array a can be walked: it has a position, and an EMPTY one
Walkable(a) == Len(a) >= 1 /\ ~Full(a)

\* C18: whenever a probe or an index insertion runs, the index array walked
\* has capacity at least 1 and an EMPTY slot, so that probe_index and
\* insert_mapping end and never walk a full lap
C18_NoFullTable ==
    /\ Walkable(left_index)
    /\ Walkable(right_index)
    /\ outcome # "Hang"

\* C18 for the maps whose capacity is not 0
C18_WhenPositive == Len(left_index) >= 1 => C18_NoFullTable


\* ------------------------------------------- with_capacity(n), then filled
\* the values the pairs of a fill are made of, and their hashers
FillValues == 0 .. MaxCapacityArg
FillHashers == {[v \in FillValues |-> v], [v \in FillValues |-> 5]}

\* with_capacity(n)
InitCap ==
    /\ data = <<>>
    /\ \E n \in 0 .. MaxCapacityArg :
          /\ left_index = EmptyIndex(apply_load_factor(n))
          /\ right_index = EmptyIndex(apply_load_factor(n))
          /\ argL = n
    /\ hasher \in FillHashers
    /\ reverse_hasher \in FillHashers
    /\ op = "with_capacity"
    /\ argR = 0
    /\ ret = <<None, None>>
    /\ outcome = "Returned"
    /\ path = "none"
    /\ grew = FALSE
    /\ tracking = FALSE
    /\ abs = {}
    /\ twin = NoTwin

\* insert of a pair of values the map does not hold: the k-th call inserts (k, k)
InsertFresh ==
    /\ Alive
    /\ Len(data) < MaxCapacityArg
    /\ Commit(insert(Self, Len(data), Len(data)), "insert", Len(data), Len(data))

NextCap == InsertFresh

SpecCap == InitCap /\ [][NextCap]_vars

StillRetrievable ==
    \A i \in 1 .. Len(data) :
       Retrievable(Self, data[i].left, data[i].right)
       => Retrievable(Self', data[i].left, data[i].right)

\* C20: after reserve(additional) returns, can_fit(additional) holds and the
\* capacity is at least len() + additional, every binding present before is
\* still retrievable in both directions, and a call made when
\* can_fit(additional) already held changes nothing
C20_Reserve ==
    [][ \A additional \in 0 .. MaxAdditional :
          (Called("reserve", additional, 0) /\ outcome' = "Returned")
          => /\ can_fit(Self', additional)
             /\ current_capacity(Self') >= len(Self') + additional
             /\ StillRetrievable
             /\ can_fit(Self, additional)
                => /\ data' = data
                   /\ left_index' = left_index
                   /\ right_index' = right_index ]_vars


\* ---------------------------------- maps of the pairs (k, k), k < NumPairs
\* with_capacity(n) or with_hashers(n, ..), n in 0..NumPairs
InitPairs ==
    /\ data = <<>>
    /\ \E n \in 0 .. NumPairs :
          \E capacity \in {n, apply_load_factor(n)} :
             /\ left_index = EmptyIndex(capacity)
             /\ right_index = EmptyIndex(capacity)
    /\ hasher \in FillHashers
    /\ reverse_hasher \in FillHashers
    /\ op = "new"
    /\ argL = 0
    /\ argR = 0
    /\ ret = <<None, None>>
    /\ outcome = "Returned"
    /\ path = "none"
    /\ grew = FALSE
    /\ tracking = FALSE
    /\ abs = {}
    /\ twin = NoTwin

InsertPair ==
    /\ Alive
    /\ \E k \in 0 .. NumPairs - 1 : Commit(insert(Self, k, k), "insert", k, k)

RemovePairLeft ==
    /\ Alive
    /\ \E k \in 0 .. NumPairs - 1 : Commit(remove_left(Self, k), "remove_left", k, 0)

RemovePairRight ==
    /\ Alive
    /\ \E k \in 0 .. NumPairs - 1 : Commit(remove_right(Self, k), "remove_right", 0, k)

NextPairs ==
    \/ InsertPair
    \/ RemovePairLeft
    \/ RemovePairRight
    \/ Reserve
    \/ ShrinkToFit

SpecPairs == InitPairs /\ [][NextPairs]_vars


\* the answer of a query before the step stands after it: a partner found
\* is found again, and a value the store does not hold stays without one
KeepsRight(l) ==
    /\ get_right(Self, l).tag = "Some" => get_right(Self', l) = get_right(Self, l)
    /\ (get_right(Self, l) = None /\ ~LeftBound(l)) => get_right(Self', l) = None

KeepsLeft(r) ==
    /\ get_left(Self, r).tag = "Some" => get_left(Self', r) = get_left(Self, r)
    /\ (get_left(Self, r) = None /\ ~RightBound(r)) => get_left(Self', r) = None

\* C21: a rebuild of the indices keeps the answers of get_right and get_left
\* for every value: reserve and shrink_to_fit keep them all, and an insert or
\* try_insert that grows keeps those of the values it is not called with
C21_RebuildKeepsAnswers ==
    [][ /\ (op' \in {"reserve", "shrink_to_fit"} /\ outcome' = "Returned")
           => /\ \A l \in DOMAIN hasher : KeepsRight(l)
              /\ \A r \in DOMAIN reverse_hasher : KeepsLeft(r)
        /\ (op' \in {"insert", "try_insert"} /\ grew'
            /\ outcome' \in {"Returned", "Ok"})
           => /\ \A l \in DOMAIN hasher \ {argL'} :
                    get_right(Self, l) # Some(argR') => KeepsRight(l)
              /\ \A r \in DOMAIN reverse_hasher \ {argR'} :
                    get_left(Self, r) # Some(argL') => KeepsLeft(r) ]_vars


\* the capacities grow, shrink_to_fit and reserve resize the map to
ResizeTargets ==
    {2 * current_capacity(Self)}
    \cup {apply_load_factor(len(Self) + additional) : additional \in 0 .. MaxAdditional}

\* C22: a resize (grow, reserve, shrink_to_fit) leaves the bucket store as it
\* was, every bucket in its slot; only the two index arrays and the capacity change
C22_ResizeKeepsStore ==
    /\ [](\A new_capacity \in ResizeTargets :
             LET m == resize(Self, new_capacity)
             IN  Ok(m) => /\ m.data = data
                          /\ m.hasher = hasher
                          /\ m.reverse_hasher = reverse_hasher
                          /\ current_capacity(m) = new_capacity
                          /\ Len(m.right_index) = new_capacity)
    /\ [][ (op' \in {"reserve", "shrink_to_fit"} /\ outcome' = "Returned")
           => data' = data ]_vars

\* shrink_to_fit has resized a map of two pairs to capacity 3
C22_Witness ==
    /\ op = "shrink_to_fit"
    /\ outcome = "Returned"
    /\ path = "resize"
    /\ len(Self) = 2
    /\ current_capacity(Self) = 3


\* C23: remove_left and remove_right never change the capacity, and a step
\* that lowers the capacity is a shrink_to_fit call
C23_CapacityFrame ==
    [][ /\ op' \in {"remove_left", "remove_right"}
           => /\ Len(left_index') = Len(left_index)
              /\ Len(right_index') = Len(right_index)
        /\ (Len(left_index') < Len(left_index) \/ Len(right_index') < Len(right_index))
           => op' = "shrink_to_fit" ]_vars

\* C23 for every call but a reserve with an argument near usize::MAX
C23_SmallArguments ==
    [][ ~(op' = "reserve" /\ argL' < 0)
        => /\ op' \in {"remove_left", "remove_right"}
              => /\ Len(left_index') = Len(left_index)
                 /\ Len(right_index') = Len(right_index)
           /\ (Len(left_index') < Len(left_index)
               \/ Len(right_index') < Len(right_index))
              => op' = "shrink_to_fit" ]_vars


\* C24: reserve(additional) with len() + additional past the end of the
\* machine word fails with a capacity-overflow abort; it does not return
C24_ReserveOverflow ==
    [][ \A below \in 1 .. MaxBelowWrap :
          (Called("reserve", -below, 0) /\ add_overflows(len(Self), -below))
          => outcome' = "Panic" ]_vars


\* where C24's call does not panic it returns through the can_fit branch: the
\* sum has wrapped to a small number and the map is left as it was
C24_WrappedFits ==
    [][ \A below \in 1 .. MaxBelowWrap :
          (Called("reserve", -below, 0) /\ add_overflows(len(Self), -below)
           /\ outcome' # "Panic")
          => /\ outcome' = "Returned"
             /\ path' = "fits"
             /\ data' = data
             /\ left_index' = left_index
             /\ right_index' = right_index ]_vars


\* the map after the step is the empty map with_hashers builds for the capacity
\* before the step, and every query on it answers None
Cleared ==
    /\ outcome' = "Returned"
    /\ len(Self') = 0
    /\ data' = <<>>
    /\ left_index' = EmptyIndex(current_capacity(Self))
    /\ right_index' = EmptyIndex(current_capacity(Self))
    /\ hasher' = hasher
    /\ reverse_hasher' = reverse_hasher
    /\ \A l \in DOMAIN hasher : get_right(Self', l) = None
    /\ \A r \in DOMAIN reverse_hasher : get_left(Self', r) = None

\* C25: after clear(), len() == 0, is_empty() holds, every get_right and
\* get_left returns None, every entry of both index arrays is EMPTY and the
\* capacity is what it was; the map is the fresh map of that capacity
C25_Clear == [][ op' = "clear" => Cleared ]_vars

\* C25 for the maps whose capacity is not 0
C25_WhenPositive ==
    [][ (op' = "clear" /\ current_capacity(Self) >= 1) => Cleared ]_vars


\* bucket slot i holds (l, r) after the step, the left index entry found for l
\* and the right index entry found for r hold i, and no index entry holds the
\* slot number past the end of the store
RelocatedTo(i, l, r) ==
    /\ outcome' = "Returned"
    /\ Len(data') = Len(data) - 1
    /\ data'[i + 1] = Bucket(l, r)
    /\ lookup_index_left(Self', l).res = "Ok"
    /\ left_index'[lookup_index_left(Self', l).index + 1] = i
    /\ lookup_index_right(Self', r).res = "Ok"
    /\ right_index'[lookup_index_right(Self', r).index + 1] = i
    /\ Holding(left_index', Len(data')) = {}
    /\ Holding(right_index', Len(data')) = {}

\* C26: insert(l, r) with l held by the last bucket and r held by a bucket at
\* slot i that is not the last: the swap-remove moves the last bucket to slot i
\* and the rest of insert works on slot i; afterwards slot i holds (l, r), both
\* index entries for it hold i and no index entry holds the old last slot number
C26_InsertMovedBucket ==
    [][ \A l \in Left, r \in Right : \A i \in 0 .. Len(data) - 2 :
          (/\ Called("insert", l, r)
           /\ data[Len(data)].left = l
           /\ data[i + 1].right = r)
          => RelocatedTo(i, l, r) ]_vars

\* C26 from a consistent map
C26_FromConsistent ==
    [][ \A l \in Left, r \in Right : \A i \in 0 .. Len(data) - 2 :
          (/\ Consistent
           /\ Called("insert", l, r)
           /\ data[Len(data)].left = l
           /\ data[i + 1].right = r)
          => (path' = "both_moved" /\ RelocatedTo(i, l, r)) ]_vars


\* the step has popped the store and put the former last bucket in slot i; in
\* index array a exactly one entry holds i, none holds the old last slot
\* number, and every other slot number is held as often as before
RepointedTo(a_before, a_after, i) ==
    /\ Cardinality(Holding(a_after, i)) = 1
    /\ Holding(a_after, Len(data) - 1) = {}
    /\ \A j \in 0 .. Len(data) - 2 :
          j # i => Cardinality(Holding(a_after, j)) = Cardinality(Holding(a_before, j))

RelocatedLast(i) ==
    /\ outcome' = "Returned"
    /\ Len(data') = Len(data) - 1
    /\ \A j \in 0 .. Len(data) - 2 : j # i => data'[j + 1] = data[j + 1]
    /\ RepointedTo(left_index, left_index', i)
    /\ RepointedTo(right_index, right_index', i)

\* the former last bucket is in slot i and found through both indices at i
MovedBucketAt(i) ==
    /\ data'[i + 1] = data[Len(data)]
    /\ get_right(Self', data[Len(data)].left) = Some(data[Len(data)].right)
    /\ get_left(Self', data[Len(data)].right) = Some(data[Len(data)].left)
    /\ left_index'[lookup_index_left(Self', data[Len(data)].left).index + 1] = i
    /\ right_index'[lookup_index_right(Self', data[Len(data)].right).index + 1] = i

\* C27: when remove_left, remove_right or the conflict case of insert deletes
\* the bucket at a slot i that is not the last, the former last bucket moves to
\* slot i, exactly its left and its right index entry are rewritten to i,
\* every other bucket keeps its slot number and no index entry holds the old
\* last slot number
C27_Relocation ==
    [][ \A i \in 0 .. Len(data) - 2 :
          /\ \A l \in Left :
                (Called("remove_left", l, 0) /\ data[i + 1].left = l)
                => (RelocatedLast(i) /\ MovedBucketAt(i))
          /\ \A r \in Right :
                (Called("remove_right", 0, r) /\ data[i + 1].right = r)
                => (RelocatedLast(i) /\ MovedBucketAt(i))
          /\ \A l \in Left, r \in Right :
                (Called("insert", l, r) /\ data[i + 1].right = r
                 /\ data[i + 1].left # l /\ LeftBound(l))
                => /\ RelocatedLast(i)
                   /\ IF data[Len(data)].left = l
                      THEN data'[i + 1] = Bucket(l, r)
                      ELSE MovedBucketAt(i) ]_vars

\* C27 from a consistent map
C27_FromConsistent ==
    [][ \A i \in 0 .. Len(data) - 2 :
          /\ \A l \in Left :
                (Consistent /\ Called("remove_left", l, 0) /\ data[i + 1].left = l)
                => (path' = "relocate" /\ RelocatedLast(i) /\ MovedBucketAt(i))
          /\ \A r \in Right :
                (Consistent /\ Called("remove_right", 0, r) /\ data[i + 1].right = r)
                => (path' = "relocate" /\ RelocatedLast(i) /\ MovedBucketAt(i))
          /\ \A l \in Left, r \in Right :
                (Consistent /\ Called("insert", l, r) /\ data[i + 1].right = r
                 /\ data[i + 1].left # l /\ LeftBound(l))
                => /\ RelocatedLast(i)
                   /\ IF data[Len(data)].left = l
                      THEN data'[i + 1] = Bucket(l, r)
                      ELSE MovedBucketAt(i) ]_vars


\* the resident at position p of a stays where it is when the entry before it
\* is emptied: the position is EMPTY or its resident is at its ideal slot
Stays(a, h, side, p) ==
    \/ a[p + 1] = EMPTY_SLOT
    \/ IdealOf(a, h, side, p) = p

\* the number of positions from j to the first one after j that stays, j
\* itself being emptied
ShiftLength(a, h, side, j) ==
    LET emptied == [a EXCEPT ![j + 1] = EMPTY_SLOT]
    IN  CHOOSE d \in 1 .. Len(a) :
           /\ Stays(emptied, h, side, (j + d) % Len(a))
           /\ \A e \in 1 .. d - 1 : ~Stays(emptied, h, side, (j + e) % Len(a))

\* a with the entry at j removed and the residents after it, up to the first
\* that stays, moved one position backward
ShiftedBack(a, h, side, j) ==
    LET d == ShiftLength(a, h, side, j)
    IN  [q \in 1 .. Len(a) |->
            LET p == q - 1
                e == Distance(j, p, Len(a))
            IN  IF e < d - 1 THEN a[((p + 1) % Len(a)) + 1]
                ELSE IF e = d - 1 THEN EMPTY_SLOT
                ELSE a[q]]

\* what C28 says of the array after, deleted from the array before at j
DeletedMapping(before, after, h, side, j) ==
    /\ after = ShiftedBack(before, h, side, j)
    /\ Cardinality(Holding(after, before[j + 1]))
          = Cardinality(Holding(before, before[j + 1])) - 1
    /\ \A k \in 0 .. Len(data) - 1 :
          k # before[j + 1]
          => Cardinality(Holding(after, k)) = Cardinality(Holding(before, k))
    /\ RobinHood(after, h, side)

Probed(found, element, a, h, side) ==
    LET held == \E i \in 1 .. Len(data) : lookup(side, data[i]) = element
    IN  /\ found.res = "Ok" <=> held
        /\ found.res = "Ok"
           => /\ Resident(a, found.index)
              /\ lookup(side, data[a[found.index + 1] + 1]) = element
        /\ found.res = "Err"
           => \/ a[found.index + 1] = EMPTY_SLOT
              \/ /\ Resident(a, found.index)
                 /\ Distance(IdealOf(a, h, side, found.index), found.index, Len(a))
                       < Distance(hash_to_index(h, element, Len(a)), found.index, Len(a))

\* C29: the probe returns Found(position) exactly when some bucket of the store
\* holds the searched value, and then the entry at that position refers to such
\* a bucket; an insertion point it returns is an EMPTY position or a position
\* whose resident has a strictly smaller probe distance than the search has
\* traveled from the value's ideal slot
C29_Probe ==
    /\ \A l \in DOMAIN hasher :
          Probed(lookup_index_left(Self, l), l, left_index, hasher, "left")
    /\ \A r \in DOMAIN reverse_hasher :
          Probed(lookup_index_right(Self, r), r, right_index, reverse_hasher, "right")


\* in a state where every bucket is retrievable and the capacity is positive
\* the probe answers as C29 says
C29_WhenConsistent == Consistent => C29_Probe


\* the positions at which the probe for element computes target_probe_dist:
\* those it visits whose resident is not the element
RECURSIVE probe_visited(_, _, _, _, _, _, _, _)
probe_visited(element, hash_index, h, side, buckets, capacity, index, dist) ==
    IF ~(hash_index[index + 1] < EMPTY_SLOT) THEN {}
    ELSE IF hash_index[index + 1] >= Len(buckets) THEN {}
    ELSE LET bucket == buckets[hash_index[index + 1] + 1]
             target_probe_dist ==
                 wrapping_sub_rem(index,
                     hash_to_index(h, lookup(side, bucket), capacity), capacity)
         IN  IF lookup(side, bucket) = element THEN {}
             ELSE IF dist > target_probe_dist THEN {index}
             ELSE {index} \cup probe_visited(element, hash_index, h, side, buckets,
                                             capacity, (index + 1) % capacity, dist + 1)

Visited(element, a, h, side) ==
    IF Len(a) = 0 THEN {}
    ELSE probe_visited(element, a, h, side, data, Len(a),
                       hash_to_index(h, element, Len(a)), 0)

\* the distance the probe computes for the resident at p is its distance
DistanceComputed(a, h, side, p) ==
    wrapping_sub_rem(p, IdealOf(a, h, side, p), Len(a))
       = Distance(IdealOf(a, h, side, p), p, Len(a))

\* C30: for every resident the probe visits, the probe distance it computes is
\* (position - ideal slot) mod capacity, also for a resident that wrapped past
\* the end of the array at a capacity that is not a power of two
C30_ProbeDistance ==
    /\ \A l \in DOMAIN hasher :
          \A p \in Visited(l, left_index, hasher, "left") :
             DistanceComputed(left_index, hasher, "left", p)
    /\ \A r \in DOMAIN reverse_hasher :
          \A p \in Visited(r, right_index, reverse_hasher, "right") :
             DistanceComputed(right_index, reverse_hasher, "right", p)

\* the computed distance is right for every visited resident that did not wrap
\* and at every capacity that divides 2^64
C30_Unwrapped ==
    /\ \A l \in DOMAIN hasher :
          \A p \in Visited(l, left_index, hasher, "left") :
             (p >= IdealOf(left_index, hasher, "left", p)
                 \/ WordModulus(Len(left_index)) = 0)
             => DistanceComputed(left_index, hasher, "left", p)
    /\ \A r \in DOMAIN reverse_hasher :
          \A p \in Visited(r, right_index, reverse_hasher, "right") :
             (p >= IdealOf(right_index, reverse_hasher, "right", p)
                 \/ WordModulus(Len(right_index)) = 0)
             => DistanceComputed(right_index, reverse_hasher, "right", p)


\* one grow from the present state doubles the capacity and makes room for one
\* more pair
GrowSuffices ==
    LET m == grow(Self)
    IN  /\ Ok(m)
        /\ current_capacity(m) = 2 * current_capacity(Self)
        /\ can_fit(m, 1)

\* insert, and try_insert when it returns Ok, grew exactly when can_fit(1) was
\* false on entry, and then the capacity is twice what it was
GrowsWhenFull ==
    /\ (op' = "insert" \/ (op' = "try_insert" /\ outcome' = "Ok"))
       => (grew' <=> ~can_fit(Self, 1))
    /\ (op' \in {"insert", "try_insert"} /\ grew' /\ outcome' \in {"Returned", "Ok"})
       => current_capacity(Self') = 2 * current_capacity(Self)

\* C31: insert and try_insert (when it succeeds) call grow exactly when
\* can_fit(1) is false on entry; grow doubles the capacity, and one grow is
\* enough: after it can_fit(1) holds, from every capacity a map can be
\* constructed with, 0 included
C31_Grow ==
    /\ [](~can_fit(Self, 1) => GrowSuffices)
    /\ [][GrowsWhenFull]_vars

\* from every state with a capacity of at least 1 in which every bucket is
\* retrievable the claim of C31 holds
C31_WhenConsistent ==
    /\ []((Consistent /\ ~can_fit(Self, 1)) => GrowSuffices)
    /\ [][Consistent => GrowsWhenFull]_vars


\* what C32 says of a shrink_to_fit that returned
Shrunk ==
    /\ current_capacity(Self') = ((10 * len(Self)) \div 9) + 1
    /\ len(Self') = len(Self)
    /\ current_capacity(Self') > len(Self')
    /\ 10 * len(Self') < 9 * current_capacity(Self')
    /\ current_capacity(Self') <= current_capacity(Self)

\* C32: shrink_to_fit sets the capacity to floor(len() / 0.9) + 1; afterwards
\* the capacity is larger than len(), len() is below 0.9 times the capacity,
\* and the capacity is not larger than it was before the call
C32_ShrinkToFit ==
    [][(op' = "shrink_to_fit" /\ outcome' = "Returned") => Shrunk]_vars

\* from every capacity of at least 1 a shrink_to_fit that returns does what
\* C32 says
C32_WhenPositive ==
    [][(op' = "shrink_to_fit" /\ outcome' = "Returned"
        /\ current_capacity(Self) >= 1) => Shrunk]_vars


\* C33: in every reachable state every pair (l, r) of the bucket store, that
\* is every pair iter() yields, is reachable through both indices:
\* contains_left(l) and contains_right(r) are true, get_right(l) = Some(r) and
\* get_left(r) = Some(l)
C33_StoredReachable ==
    \A i \in 1 .. Len(data) :
       /\ contains_left(Self, data[i].left)
       /\ contains_right(Self, data[i].right)
       /\ get_right(Self, data[i].left) = Some(data[i].right)
       /\ get_left(Self, data[i].right) = Some(data[i].left)


\* remove_left(l) and remove_right(r) leave the same map behind; a call that
\* panics leaves none
SameRemoval(l, r) ==
    LET by_left == remove_left(Self, l).m
        by_right == remove_right(Self, r).m
    IN  /\ Ok(by_left)
        /\ Ok(by_right)
        /\ by_left.data = by_right.data
        /\ by_left.left_index = by_right.left_index
        /\ by_left.right_index = by_right.right_index

\* C34: for a bound pair (l, r), remove_left(l) and remove_right(r) applied to
\* the same state produce the same bucket store, the same left index array and
\* the same right index array
C34_RemoveEitherSide ==
    \A i \in 1 .. Len(data) : SameRemoval(data[i].left, data[i].right)

\* in a state of capacity at least 1 in which every bucket is retrievable the
\* two removals agree
C34_WhenConsistent == Consistent => C34_RemoveEitherSide


\* ------------------------------------------- two maps, the same calls
\* what a call on the twin leaves: a panic leaves the map as it was
TwinStep(res) ==
    IF Ok(res.m) THEN res
    ELSE [res EXCEPT !.m = twin.m,
                     !.ret = <<None, None>>,
                     !.outcome = IF res.m.fault = "panic" THEN "Panic" ELSE "Hang"]

\* the last call returned the same from both maps, and both answer every query
\* alike
TwinAgrees ==
    /\ twin.outcome = outcome
    /\ twin.ret = ret
    /\ outcome \notin {"Panic", "Hang"}
       => /\ len(twin.m) = len(Self)
          /\ \A v \in Values :
                /\ get_right(twin.m, v) = get_right(Self, v)
                /\ get_left(twin.m, v) = get_left(Self, v)
                /\ contains_left(twin.m, v) = contains_left(Self, v)
                /\ contains_right(twin.m, v) = contains_right(Self, v)

\* a number for each pair of hashers, so that two maps are taken once and not
\* once in each order
HasherPair(h, rh) ==
    (IF h = IdentityHash THEN 0 ELSE 2) + (IF rh = IdentityHash THEN 0 ELSE 1)

\* two maps of the same capacity with different pairs of hashers
InitTwin ==
    /\ Construct
    /\ tracking = FALSE
    /\ \E h \in Hashers, rh \in Hashers :
          /\ HasherPair(h, rh) > HasherPair(hasher, reverse_hasher)
          /\ twin = Result([data |-> <<>>, left_index |-> left_index,
                            right_index |-> right_index, hasher |-> h,
                            reverse_hasher |-> rh, fault |-> "none"],
                           <<None, None>>, "Returned", "none", FALSE)

\* the calls go on for as long as the two maps have answered alike
TwinAlive == Alive /\ TwinAgrees

TwinInsert ==
    /\ TwinAlive
    /\ Len(data) < MaxLen
    /\ \E l \in Left, r \in Right :
          /\ Record(insert(Self, l, r), "insert", l, r)
          /\ twin' = TwinStep(insert(twin.m, l, r))

TwinTryInsert ==
    /\ TwinAlive
    /\ Len(data) < MaxLen
    /\ \E l \in Left, r \in Right :
          /\ Record(try_insert(Self, l, r), "try_insert", l, r)
          /\ twin' = TwinStep(try_insert(twin.m, l, r))

TwinRemoveLeft ==
    /\ TwinAlive
    /\ \E l \in Left :
          /\ Record(remove_left(Self, l), "remove_left", l, 0)
          /\ twin' = TwinStep(remove_left(twin.m, l))

TwinRemoveRight ==
    /\ TwinAlive
    /\ \E r \in Right :
          /\ Record(remove_right(Self, r), "remove_right", 0, r)
          /\ twin' = TwinStep(remove_right(twin.m, r))

TwinReserve ==
    /\ TwinAlive
    /\ \E additional \in (0 .. MaxAdditional) \cup {-below : below \in 1 .. MaxBelowWrap},
          overflow_checks \in BOOLEAN :
          /\ Record(reserve(Self, additional, overflow_checks), "reserve", additional, 0)
          /\ twin' = TwinStep(reserve(twin.m, additional, overflow_checks))

TwinShrinkToFit ==
    /\ TwinAlive
    /\ Record(shrink_to_fit(Self), "shrink_to_fit", 0, 0)
    /\ twin' = TwinStep(shrink_to_fit(twin.m))

TwinClear ==
    /\ TwinAlive
    /\ Record(clear(Self), "clear", 0, 0)
    /\ twin' = TwinStep(clear(twin.m))

NextTwin ==
    \/ TwinInsert
    \/ TwinTryInsert
    \/ TwinRemoveLeft
    \/ TwinRemoveRight
    \/ TwinReserve
    \/ TwinShrinkToFit
    \/ TwinClear

SpecTwin == InitTwin /\ [][NextTwin]_vars

\* C35: two maps built with the same capacity and different pairs of hash
\* functions, given the same calls, return the same value from every call and
\* answer every get_right, get_left, contains_left, contains_right and len
\* query alike
C35_HashIndependence == twin # NoTwin => TwinAgrees

====
